---- MODULE Spec2Model ----
(***************************************************************************)
(* Model of the Mergington High School activities API (src/src/app.py):    *)
(* the in-memory `activities` registry and the three request handlers      *)
(* get_activities, signup_for_activity and unregister_from_activity,       *)
(* executed one request at a time.                                         *)
(***************************************************************************)
EXTENDS Integers, Sequences, FiniteSets, TLC

VARIABLES activities, request, response, previous, handlers, origin

vars == <<activities, request, response, previous, handlers, origin>>

(***************************************************************************)
(* Bounds of the model.                                                    *)
(***************************************************************************)
\* number of filler sign-ups for Tennis Club already made when the model starts
MaxFill == 9
\* number of distinct emails the requests of the model are drawn from
MaxEmails == 2

(***************************************************************************)
(* Inputs.                                                                 *)
(***************************************************************************)
FillerPool ==
  << "filler0@mergington.edu", "filler1@mergington.edu", "filler2@mergington.edu",
     "filler3@mergington.edu", "filler4@mergington.edu", "filler5@mergington.edu",
     "filler6@mergington.edu", "filler7@mergington.edu", "filler8@mergington.edu",
     "filler9@mergington.edu", "filler10@mergington.edu", "filler11@mergington.edu" >>

EmailPool ==
  << "alex@mergington.edu", "overflow@mergington.edu", "michael@mergington.edu",
     "testuser@mergington.edu", "multisignup@mergington.edu" >>

Emails == { EmailPool[i] : i \in 1..MaxEmails }

ActivityNames == { "Tennis Club", "Chess Club", "NonExistent Activity" }

\* the worker threads that run handlers at the same time, and their inputs
Threads == { 1, 2 }

ConcEmails == { "alex@mergington.edu", "overflow@mergington.edu",
                "michael@mergington.edu" }

ConcActivityNames == { "Tennis Club", "NonExistent Activity" }

(***************************************************************************)
(* The seed registry.                                                      *)
(***************************************************************************)
SeedActivities ==
  [ n \in { "Chess Club", "Programming Class", "Gym Class", "Basketball Team",
            "Tennis Club", "Debate Team", "Science Club", "Art Studio",
            "Music Band" } |->
    CASE n = "Chess Club" ->
           [ description |-> "Learn strategies and compete in chess tournaments",
             schedule |-> "Fridays, 3:30 PM - 5:00 PM",
             max_participants |-> 12,
             participants |-> << "michael@mergington.edu", "daniel@mergington.edu" >> ]
      [] n = "Programming Class" ->
           [ description |-> "Learn programming fundamentals and build software projects",
             schedule |-> "Tuesdays and Thursdays, 3:30 PM - 4:30 PM",
             max_participants |-> 20,
             participants |-> << "emma@mergington.edu", "sophia@mergington.edu" >> ]
      [] n = "Gym Class" ->
           [ description |-> "Physical education and sports activities",
             schedule |-> "Mondays, Wednesdays, Fridays, 2:00 PM - 3:00 PM",
             max_participants |-> 30,
             participants |-> << "john@mergington.edu", "olivia@mergington.edu" >> ]
      [] n = "Basketball Team" ->
           [ description |-> "Competitive basketball training and matches",
             schedule |-> "Mondays and Wednesdays, 4:00 PM - 5:30 PM",
             max_participants |-> 15,
             participants |-> << "james@mergington.edu" >> ]
      [] n = "Tennis Club" ->
           [ description |-> "Tennis lessons and tournament preparation",
             schedule |-> "Tuesdays and Thursdays, 4:00 PM - 5:00 PM",
             max_participants |-> 10,
             participants |-> << "alex@mergington.edu" >> ]
      [] n = "Debate Team" ->
           [ description |-> "Develop critical thinking and public speaking skills",
             schedule |-> "Wednesdays, 3:30 PM - 5:00 PM",
             max_participants |-> 16,
             participants |-> << "sarah@mergington.edu", "marcus@mergington.edu" >> ]
      [] n = "Science Club" ->
           [ description |-> "Explore scientific experiments and research projects",
             schedule |-> "Fridays, 4:00 PM - 5:30 PM",
             max_participants |-> 18,
             participants |-> << "lisa@mergington.edu" >> ]
      [] n = "Art Studio" ->
           [ description |-> "Painting, drawing, and visual arts creation",
             schedule |-> "Mondays and Thursdays, 3:30 PM - 5:00 PM",
             max_participants |-> 14,
             participants |-> << "nina@mergington.edu", "carlos@mergington.edu" >> ]
      [] n = "Music Band" ->
           [ description |-> "Learn instruments and perform in concerts",
             schedule |-> "Tuesdays and Fridays, 3:30 PM - 4:30 PM",
             max_participants |-> 25,
             participants |-> << "david@mergington.edu" >> ] ]

(***************************************************************************)
(* Python list operations used by the handlers.                            *)
(***************************************************************************)
\* `email in participants`
list_contains(participants, email) ==
  \E i \in 1..Len(participants) : participants[i] = email

\* variant: the email is inserted at the front of the list
list_prepend(participants, email) == << email >> \o participants

\* `participants.append(email)`
list_append(participants, email) == Append(participants, email)

\* index of the first occurrence of email (the list contains it)
list_index(participants, email) ==
  CHOOSE i \in 1..Len(participants) :
    /\ participants[i] = email
    /\ \A j \in 1..(i - 1) : participants[j] # email

\* variant: the last element is removed (`participants.pop()`)
list_remove_last(participants, email) ==
  SubSeq(participants, 1, Len(participants) - 1)

\* `participants.remove(email)`: deletes the first occurrence only
list_remove(participants, email) ==
  LET i == list_index(participants, email)
  IN  SubSeq(participants, 1, i - 1) \o SubSeq(participants, i + 1, Len(participants))

(***************************************************************************)
(* Outcomes of a handler: the registry after the call and the HTTP reply.  *)
(***************************************************************************)
NoBody == << >>

\* `raise HTTPException(status_code=..., detail=...)`: the registry is as it was
HTTPException(acts, status_code, detail) ==
  [ activities |-> acts,
    response |-> [ status_code |-> status_code, detail |-> detail,
                   message |-> << >>, body |-> NoBody ] ]

\* `return {"message": ...}`: 200 with the message
Returned(acts, message) ==
  [ activities |-> acts,
    response |-> [ status_code |-> 200, detail |-> "",
                   message |-> message, body |-> NoBody ] ]

(***************************************************************************)
(* The handlers.                                                           *)
(***************************************************************************)
\* variant: the listing is served from the seed data instead of the registry
get_activities_stale(acts) ==
  [ activities |-> acts,
    response |-> [ status_code |-> 200, detail |-> "",
                   message |-> << >>, body |-> SeedActivities ] ]

get_activities(acts) ==
  [ activities |-> acts,
    response |-> [ status_code |-> 200, detail |-> "",
                   message |-> << >>, body |-> acts ] ]

\* variant: no capacity check
signup_no_capacity_check(acts, activity_name, email) ==
  IF activity_name \notin DOMAIN acts
  THEN HTTPException(acts, 404, "Activity not found")
  ELSE LET activity == acts[activity_name]
       IN  IF list_contains(activity.participants, email)
           THEN HTTPException(acts, 400, "Student already signed up for this activity")
           ELSE Returned([ acts EXCEPT ![activity_name].participants =
                                          list_append(@, email) ],
                         << "Signed up", email, "for", activity_name >>)

\* variant: no duplicate check
signup_no_duplicate_check(acts, activity_name, email) ==
  IF activity_name \notin DOMAIN acts
  THEN HTTPException(acts, 404, "Activity not found")
  ELSE LET activity == acts[activity_name]
       IN  IF Len(activity.participants) >= activity.max_participants
           THEN HTTPException(acts, 400, "This activity is full")
           ELSE Returned([ acts EXCEPT ![activity_name].participants =
                                          list_append(@, email) ],
                         << "Signed up", email, "for", activity_name >>)

\* variant: the capacity check comes before the duplicate check
signup_capacity_first(acts, activity_name, email) ==
  IF activity_name \notin DOMAIN acts
  THEN HTTPException(acts, 404, "Activity not found")
  ELSE LET activity == acts[activity_name]
       IN  IF Len(activity.participants) >= activity.max_participants
           THEN HTTPException(acts, 400, "This activity is full")
           ELSE IF list_contains(activity.participants, email)
           THEN HTTPException(acts, 400, "Student already signed up for this activity")
           ELSE Returned([ acts EXCEPT ![activity_name].participants =
                                          list_append(@, email) ],
                         << "Signed up", email, "for", activity_name >>)

\* variant: the capacity check compares with > instead of >=
signup_off_by_one(acts, activity_name, email) ==
  IF activity_name \notin DOMAIN acts
  THEN HTTPException(acts, 404, "Activity not found")
  ELSE LET activity == acts[activity_name]
       IN  IF list_contains(activity.participants, email)
           THEN HTTPException(acts, 400, "Student already signed up for this activity")
           ELSE IF Len(activity.participants) > activity.max_participants
           THEN HTTPException(acts, 400, "This activity is full")
           ELSE Returned([ acts EXCEPT ![activity_name].participants =
                                          list_append(@, email) ],
                         << "Signed up", email, "for", activity_name >>)

\* variant: signing up an enrolled student is accepted as a no-op
signup_idempotent(acts, activity_name, email) ==
  IF activity_name \notin DOMAIN acts
  THEN HTTPException(acts, 404, "Activity not found")
  ELSE LET activity == acts[activity_name]
       IN  IF list_contains(activity.participants, email)
           THEN Returned(acts, << "Signed up", email, "for", activity_name >>)
           ELSE IF Len(activity.participants) >= activity.max_participants
           THEN HTTPException(acts, 400, "This activity is full")
           ELSE Returned([ acts EXCEPT ![activity_name].participants =
                                          list_append(@, email) ],
                         << "Signed up", email, "for", activity_name >>)

\* variant: the duplicate check looks at the rosters of all activities
signup_global_duplicate_check(acts, activity_name, email) ==
  IF activity_name \notin DOMAIN acts
  THEN HTTPException(acts, 404, "Activity not found")
  ELSE LET activity == acts[activity_name]
       IN  IF \E n \in DOMAIN acts : list_contains(acts[n].participants, email)
           THEN HTTPException(acts, 400, "Student already signed up for this activity")
           ELSE IF Len(activity.participants) >= activity.max_participants
           THEN HTTPException(acts, 400, "This activity is full")
           ELSE Returned([ acts EXCEPT ![activity_name].participants =
                                          list_append(@, email) ],
                         << "Signed up", email, "for", activity_name >>)

signup_for_activity(acts, activity_name, email) ==
  IF activity_name \notin DOMAIN acts
  THEN HTTPException(acts, 404, "Activity not found")
  ELSE LET activity == acts[activity_name]
       IN  IF list_contains(activity.participants, email)
           THEN HTTPException(acts, 400, "Student already signed up for this activity")
           ELSE IF Len(activity.participants) >= activity.max_participants
           THEN HTTPException(acts, 400, "This activity is full")
           ELSE Returned([ acts EXCEPT ![activity_name].participants =
                                          list_append(@, email) ],
                         << "Signed up", email, "for", activity_name >>)

\* variant: no membership check, an absent student is reported as removed
unregister_unchecked(acts, activity_name, email) ==
  IF activity_name \notin DOMAIN acts
  THEN Returned(acts, << "Removed", email, "from", activity_name >>)
  ELSE LET activity == acts[activity_name]
       IN  IF ~ list_contains(activity.participants, email)
           THEN Returned(acts, << "Removed", email, "from", activity_name >>)
           ELSE Returned([ acts EXCEPT ![activity_name].participants =
                                          list_remove(@, email) ],
                         << "Removed", email, "from", activity_name >>)

\* variant: the removal is reported but not made
unregister_without_remove(acts, activity_name, email) ==
  IF activity_name \notin DOMAIN acts
  THEN HTTPException(acts, 404, "Activity not found")
  ELSE LET activity == acts[activity_name]
       IN  IF ~ list_contains(activity.participants, email)
           THEN HTTPException(acts, 404, "Student not found in activity")
           ELSE Returned(acts, << "Removed", email, "from", activity_name >>)

\* variant: the email is removed from every roster that holds it
unregister_everywhere(acts, activity_name, email) ==
  IF activity_name \notin DOMAIN acts
  THEN HTTPException(acts, 404, "Activity not found")
  ELSE LET activity == acts[activity_name]
       IN  IF ~ list_contains(activity.participants, email)
           THEN HTTPException(acts, 404, "Student not found in activity")
           ELSE Returned([ n \in DOMAIN acts |->
                           IF list_contains(acts[n].participants, email)
                           THEN [ acts[n] EXCEPT !.participants =
                                                   list_remove(@, email) ]
                           ELSE acts[n] ],
                         << "Removed", email, "from", activity_name >>)

\* variant: a full roster stays closed after a removal (one slot is lost)
unregister_keeps_slot(acts, activity_name, email) ==
  IF activity_name \notin DOMAIN acts
  THEN HTTPException(acts, 404, "Activity not found")
  ELSE LET activity == acts[activity_name]
       IN  IF ~ list_contains(activity.participants, email)
           THEN HTTPException(acts, 404, "Student not found in activity")
           ELSE Returned([ acts EXCEPT
                             ![activity_name].participants = list_remove(@, email),
                             ![activity_name].max_participants = @ - 1 ],
                         << "Removed", email, "from", activity_name >>)

unregister_from_activity(acts, activity_name, email) ==
  IF activity_name \notin DOMAIN acts
  THEN HTTPException(acts, 404, "Activity not found")
  ELSE LET activity == acts[activity_name]
       IN  IF ~ list_contains(activity.participants, email)
           THEN HTTPException(acts, 404, "Student not found in activity")
           ELSE Returned([ acts EXCEPT ![activity_name].participants =
                                          list_remove(@, email) ],
                         << "Removed", email, "from", activity_name >>)

(***************************************************************************)
(* The registry after the first k filler sign-ups for Tennis Club          *)
(* (the loop of test_signup_activity_full), made through the handler.      *)
(***************************************************************************)
RECURSIVE Filled(_)
Filled(k) ==
  IF k = 0 THEN SeedActivities
  ELSE signup_for_activity(Filled(k - 1), "Tennis Club", FillerPool[k]).activities

(***************************************************************************)
(* State machine.                                                          *)
(***************************************************************************)
NoRequest == [ op |-> "none", activity_name |-> "", email |-> "" ]

NoResponse == [ status_code |-> 0, detail |-> "", message |-> << >>, body |-> NoBody ]

NoPrevious == [ op |-> "none", activity_name |-> "", email |-> "", status_code |-> 0 ]

\* what is remembered of the call before the last one
Remember == [ op |-> request.op, activity_name |-> request.activity_name,
              email |-> request.email, status_code |-> response.status_code ]

\* a worker thread that has not been given a request
IdleHandler == [ pc |-> "idle", op |-> "none", activity_name |-> "", email |-> "",
                 status_code |-> 0, detail |-> "" ]

Init ==
  /\ activities \in { Filled(k) : k \in 0..MaxFill }
  /\ request = NoRequest
  /\ response = NoResponse
  /\ previous = NoPrevious
  /\ handlers = [ t \in Threads |-> IdleHandler ]
  /\ origin = activities

GetActivities ==
  LET r == get_activities(activities)
  IN  /\ activities' = r.activities
      /\ request' = [ op |-> "get_activities", activity_name |-> "", email |-> "" ]
      /\ response' = r.response
      /\ previous' = Remember
      /\ UNCHANGED << handlers, origin >>

Signup ==
  \E activity_name \in ActivityNames, email \in Emails :
    LET r == signup_for_activity(activities, activity_name, email)
    IN  /\ activities' = r.activities
        /\ request' = [ op |-> "signup", activity_name |-> activity_name,
                        email |-> email ]
        /\ response' = r.response
        /\ previous' = Remember
        /\ UNCHANGED << handlers, origin >>

Unregister ==
  \E activity_name \in ActivityNames, email \in Emails :
    LET r == unregister_from_activity(activities, activity_name, email)
    IN  /\ activities' = r.activities
        /\ request' = [ op |-> "unregister", activity_name |-> activity_name,
                        email |-> email ]
        /\ response' = r.response
        /\ previous' = Remember
        /\ UNCHANGED << handlers, origin >>

Next == GetActivities \/ Signup \/ Unregister

Spec == Init /\ [][Next]_vars

(***************************************************************************)
(* Handlers run at the same time by the worker threads of the server: the  *)
(* handlers are plain `def` functions, each statement of a handler is a    *)
(* step of its thread and nothing orders the steps of different threads.   *)
(***************************************************************************)
Finish(t, status_code, detail) ==
  [ handlers EXCEPT ![t].pc = "done", ![t].status_code = status_code,
                    ![t].detail = detail ]

Goto(t, pc) == [ handlers EXCEPT ![t].pc = pc ]

\* a request for signup_for_activity or unregister_from_activity arrives
Receive(t) ==
  /\ handlers[t].pc = "idle"
  /\ \E op \in { "signup", "unregister" }, activity_name \in ConcActivityNames,
        email \in ConcEmails :
       handlers' = [ handlers EXCEPT ![t] =
                       [ pc |-> "exists", op |-> op,
                         activity_name |-> activity_name, email |-> email,
                         status_code |-> 0, detail |-> "" ] ]
  /\ UNCHANGED << activities, request, response, previous, origin >>

\* `if activity_name not in activities` (both handlers)
CheckExists(t) ==
  /\ handlers[t].pc = "exists"
  /\ handlers' = IF handlers[t].activity_name \notin DOMAIN activities
                 THEN Finish(t, 404, "Activity not found")
                 ELSE Goto(t, "member")
  /\ UNCHANGED << activities, request, response, previous, origin >>

\* `if email in activity["participants"]` / `if email not in ...`
CheckMember(t) ==
  /\ handlers[t].pc = "member"
  /\ LET h == handlers[t]
         present == list_contains(activities[h.activity_name].participants, h.email)
     IN  handlers' =
           IF h.op = "signup"
           THEN IF present
                THEN Finish(t, 400, "Student already signed up for this activity")
                ELSE Goto(t, "capacity")
           ELSE IF ~ present
                THEN Finish(t, 404, "Student not found in activity")
                ELSE Goto(t, "remove")
  /\ UNCHANGED << activities, request, response, previous, origin >>

\* `if len(activity["participants"]) >= activity["max_participants"]`
CheckCapacity(t) ==
  /\ handlers[t].pc = "capacity"
  /\ LET activity == activities[handlers[t].activity_name]
     IN  handlers' = IF Len(activity.participants) >= activity.max_participants
                     THEN Finish(t, 400, "This activity is full")
                     ELSE Goto(t, "append")
  /\ UNCHANGED << activities, request, response, previous, origin >>

\* `activity["participants"].append(email)` and the return
DoAppend(t) ==
  /\ handlers[t].pc = "append"
  /\ activities' = [ activities EXCEPT ![handlers[t].activity_name].participants =
                                         list_append(@, handlers[t].email) ]
  /\ handlers' = Finish(t, 200, "")
  /\ UNCHANGED << request, response, previous, origin >>

\* `activity["participants"].remove(email)` and the return; list.remove
\* raises ValueError when the email is not in the list, which no handler
\* catches: the server answers 500
DoRemove(t) ==
  /\ handlers[t].pc = "remove"
  /\ LET h == handlers[t]
     IN  IF list_contains(activities[h.activity_name].participants, h.email)
         THEN /\ activities' = [ activities EXCEPT ![h.activity_name].participants =
                                                     list_remove(@, h.email) ]
              /\ handlers' = Finish(t, 200, "")
         ELSE /\ activities' = activities
              /\ handlers' = Finish(t, 500, "Internal Server Error")
  /\ UNCHANGED << request, response, previous, origin >>

ConcNext ==
  \E t \in Threads :
    \/ Receive(t)
    \/ CheckExists(t)
    \/ CheckMember(t)
    \/ CheckCapacity(t)
    \/ DoAppend(t)
    \/ DoRemove(t)

ConcSpec == Init /\ [][ConcNext]_vars

(***************************************************************************)
(* Properties.                                                             *)
(***************************************************************************)
\* the outcomes of the error taxonomy
IsNotFound(r) == r.status_code = 404 /\ r.detail = "Activity not found"

IsAlreadyEnrolled(r) ==
  r.status_code = 400 /\ r.detail = "Student already signed up for this activity"

IsCapacityExceeded(r) == r.status_code = 400 /\ r.detail = "This activity is full"

IsParticipantNotFound(r) ==
  r.status_code = 404 /\ r.detail = "Student not found in activity"

IsSuccess(r) == r.status_code = 200

Known(name) == name \in DOMAIN activities

Roster(name) == activities[name].participants

Occurrences(participants, email) ==
  Cardinality({ i \in 1..Len(participants) : participants[i] = email })

Members(participants) == { participants[i] : i \in 1..Len(participants) }

Without(participants, email) == SelectSeq(participants, LAMBDA x : x # email)

\* C1: every activity's roster is never longer than its max_participants.
CapacityInvariant ==
  \A n \in DOMAIN activities :
    Len(activities[n].participants) <= activities[n].max_participants

\* a sign-up was rejected as full by a roster holding exactly max_participants
CapacityWitness ==
  /\ request.op = "signup"
  /\ IsCapacityExceeded(response)
  /\ Known(request.activity_name)
  /\ Len(Roster(request.activity_name)) =
       activities[request.activity_name].max_participants

\* C2: no roster contains the same email twice.
UniquenessInvariant ==
  \A n \in DOMAIN activities :
    \A i, j \in 1..Len(activities[n].participants) :
      i # j => activities[n].participants[i] # activities[n].participants[j]

\* a sign-up of an enrolled email was rejected and the email is there once
UniquenessWitness ==
  /\ request.op = "signup"
  /\ IsAlreadyEnrolled(response)
  /\ Occurrences(Roster(request.activity_name), request.email) = 1
  /\ previous.op = "unregister"

\* C3: a sign-up for an unknown activity is answered NotFound whatever the
\* email, and a sign-up of an enrolled email for a full activity is answered
\* AlreadyEnrolled, not CapacityExceeded.
ValidationOrder ==
  [][ request'.op = "signup" =>
        /\ ~ Known(request'.activity_name) => IsNotFound(response')
        /\ ( /\ Known(request'.activity_name)
             /\ Len(Roster(request'.activity_name)) >=
                  activities[request'.activity_name].max_participants
             /\ list_contains(Roster(request'.activity_name), request'.email) )
           => IsAlreadyEnrolled(response') ]_vars

\* an enrolled email was signed up again for a full activity, right after a
\* sign-up for an unknown activity
ValidationOrderWitness ==
  /\ request.op = "signup"
  /\ Known(request.activity_name)
  /\ Len(Roster(request.activity_name)) >=
       activities[request.activity_name].max_participants
  /\ list_contains(Roster(request.activity_name), request.email)
  /\ IsAlreadyEnrolled(response)
  /\ previous.op = "signup"
  /\ ~ Known(previous.activity_name)
  /\ previous.status_code = 404

\* C4: a sign-up of a new email for a known activity succeeds exactly when
\* the roster is shorter than max_participants; otherwise it is answered
\* CapacityExceeded and the registry is unchanged.
CapacityBoundary ==
  [][ ( /\ request'.op = "signup"
        /\ Known(request'.activity_name)
        /\ ~ list_contains(Roster(request'.activity_name), request'.email) )
      => IF Len(Roster(request'.activity_name)) <
              activities[request'.activity_name].max_participants
         THEN /\ IsSuccess(response')
              /\ list_contains(activities'[request'.activity_name].participants,
                               request'.email)
         ELSE /\ IsCapacityExceeded(response')
              /\ activities' = activities ]_vars

\* a sign-up succeeded and filled the roster to exactly max_participants
CapacityBoundaryWitness ==
  /\ request.op = "signup"
  /\ IsSuccess(response)
  /\ Len(Roster(request.activity_name)) =
       activities[request.activity_name].max_participants

\* C5: a sign-up of an email that is already on the roster is answered
\* AlreadyEnrolled and changes nothing; in particular the repetition of a
\* sign-up that has just succeeded.
DuplicateRejected ==
  [][ /\ ( /\ request'.op = "signup"
           /\ Known(request'.activity_name)
           /\ list_contains(Roster(request'.activity_name), request'.email) )
         => ( IsAlreadyEnrolled(response') /\ activities' = activities )
      /\ ( /\ request.op = "signup"
           /\ IsSuccess(response)
           /\ request' = request )
         => ( IsAlreadyEnrolled(response') /\ activities' = activities ) ]_vars

\* the same sign-up was made twice in a row: accepted, then rejected
DuplicateRejectedWitness ==
  /\ previous.op = "signup"
  /\ previous.status_code = 200
  /\ request = [ op |-> "signup", activity_name |-> previous.activity_name,
                 email |-> previous.email ]
  /\ IsAlreadyEnrolled(response)

\* C6: an unregister for an unknown activity is answered NotFound, one for an
\* email that is not on the roster ParticipantNotFound; neither changes the
\* registry.
WithdrawFailures ==
  [][ request'.op = "unregister" =>
        /\ ~ Known(request'.activity_name)
           => ( IsNotFound(response') /\ activities' = activities )
        /\ ( /\ Known(request'.activity_name)
             /\ ~ list_contains(Roster(request'.activity_name), request'.email) )
           => ( IsParticipantNotFound(response') /\ activities' = activities )
    ]_vars

\* an unregister for an unknown activity was followed by one for an email
\* that is not on the roster
WithdrawFailuresWitness ==
  /\ previous.op = "unregister"
  /\ ~ Known(previous.activity_name)
  /\ previous.status_code = 404
  /\ request.op = "unregister"
  /\ Known(request.activity_name)
  /\ IsParticipantNotFound(response)

\* C7: a successful sign-up puts the email at the end of the roster, once,
\* with the earlier participants before it in their order.
EnrollAppends ==
  [][ ( request'.op = "signup" /\ IsSuccess(response') )
      => /\ activities'[request'.activity_name].participants =
              Append(Roster(request'.activity_name), request'.email)
         /\ Occurrences(activities'[request'.activity_name].participants,
                        request'.email) = 1 ]_vars

\* a sign-up succeeded on a roster that had two participants or more
EnrollAppendsWitness ==
  /\ request.op = "signup"
  /\ IsSuccess(response)
  /\ Len(Roster(request.activity_name)) >= 3
  /\ Roster(request.activity_name)[Len(Roster(request.activity_name))] =
       request.email

\* C8: a successful unregister leaves no occurrence of the email, makes the
\* roster one shorter and keeps the others in their order.
WithdrawRemoves ==
  [][ ( request'.op = "unregister" /\ IsSuccess(response') )
      => /\ ~ list_contains(activities'[request'.activity_name].participants,
                            request'.email)
         /\ Len(activities'[request'.activity_name].participants) =
              Len(Roster(request'.activity_name)) - 1
         /\ activities'[request'.activity_name].participants =
              Without(Roster(request'.activity_name), request'.email) ]_vars

\* the first participant of Tennis Club was unregistered and two or more remain
WithdrawRemovesWitness ==
  /\ request = [ op |-> "unregister", activity_name |-> "Tennis Club",
                 email |-> "alex@mergington.edu" ]
  /\ IsSuccess(response)
  /\ Len(Roster("Tennis Club")) >= 2
  /\ Roster("Tennis Club")[1] = "filler0@mergington.edu"

\* C9: in every reachable state, for every participant of every activity,
\* unregister followed at once by signup both succeed, the activity has the
\* same set of participants as before and the other activities are as before.
RoundTrip ==
  /\ \A a \in DOMAIN activities :
       \A e \in Members(Roster(a)) :
         LET w == unregister_from_activity(activities, a, e)
             s == signup_for_activity(w.activities, a, e)
         IN  /\ IsSuccess(w.response)
             /\ IsSuccess(s.response)
             /\ Members(s.activities[a].participants) = Members(Roster(a))
             /\ \A b \in DOMAIN activities \ {a} :
                  s.activities[b] = activities[b]
  /\ ( /\ previous.op = "unregister"
       /\ previous.status_code = 200
       /\ request = [ op |-> "signup", activity_name |-> previous.activity_name,
                      email |-> previous.email ] )
     => IsSuccess(response)

\* a participant of a full Tennis Club was unregistered and signed up again
RoundTripWitness ==
  /\ previous.op = "unregister"
  /\ previous.status_code = 200
  /\ request = [ op |-> "signup", activity_name |-> previous.activity_name,
                 email |-> previous.email ]
  /\ IsSuccess(response)
  /\ request.activity_name = "Tennis Club"
  /\ Len(Roster("Tennis Club")) = activities["Tennis Club"].max_participants

\* C10: get_activities answers 200 with the current registry and leaves it
\* unchanged; two listings in a row return the same.
ListingPure ==
  [][ request'.op = "get_activities" =>
        /\ IsSuccess(response')
        /\ activities' = activities
        /\ response'.body = activities'
        /\ request.op = "get_activities" => response'.body = response.body
    ]_vars

\* two listings in a row, of a registry that is no longer the seed
ListingPureWitness ==
  /\ previous.op = "get_activities"
  /\ request.op = "get_activities"
  /\ response.body = activities
  /\ activities # SeedActivities

\* C11: the activity names and each activity's description, schedule and
\* max_participants are always those of the seed; a sign-up or unregister
\* for an activity changes at most that activity's participants.
StaticFields ==
  /\ DOMAIN activities = DOMAIN SeedActivities
  /\ \A n \in DOMAIN SeedActivities :
       /\ activities[n].description = SeedActivities[n].description
       /\ activities[n].schedule = SeedActivities[n].schedule
       /\ activities[n].max_participants = SeedActivities[n].max_participants

FrameOfMutations ==
  /\ [] StaticFields
  /\ [][ request'.op \in { "signup", "unregister" } =>
           \A n \in DOMAIN activities \ { request'.activity_name } :
             /\ n \in DOMAIN activities'
             /\ activities'[n] = activities[n] ]_vars

\* an email enrolled in both Tennis Club and Chess Club was unregistered from
\* one of them and is still in the other
FrameOfMutationsWitness ==
  /\ request.op = "unregister"
  /\ IsSuccess(response)
  /\ \E n \in DOMAIN activities \ { request.activity_name } :
       /\ list_contains(Roster(n), request.email)
       /\ Roster(n) # SeedActivities[n].participants
  /\ previous.op = "signup"
  /\ ~ Known(previous.activity_name)

\* C16: the duplicate check looks at one activity only: a sign-up of an email
\* that is on the roster of another activity is decided by the roster of the
\* requested activity alone, and succeeds when that roster does not hold the
\* email and is below capacity, leaving the email enrolled in both.
ElsewhereEnrolled(name, email) ==
  \E n \in DOMAIN activities \ { name } : list_contains(Roster(n), email)

DuplicateCheckScoped ==
  [][ ( /\ request'.op = "signup"
        /\ Known(request'.activity_name)
        /\ ElsewhereEnrolled(request'.activity_name, request'.email) )
      => IF list_contains(Roster(request'.activity_name), request'.email)
         THEN IsAlreadyEnrolled(response')
         ELSE IF Len(Roster(request'.activity_name)) >=
                   activities[request'.activity_name].max_participants
         THEN IsCapacityExceeded(response')
         ELSE /\ IsSuccess(response')
              /\ list_contains(activities'[request'.activity_name].participants,
                               request'.email)
              /\ \E n \in DOMAIN activities' \ { request'.activity_name } :
                   list_contains(activities'[n].participants, request'.email)
    ]_vars

\* the same email was signed up for two activities one after the other and
\* is on both rosters
DuplicateCheckScopedWitness ==
  /\ previous.op = "signup"
  /\ previous.status_code = 200
  /\ request.op = "signup"
  /\ IsSuccess(response)
  /\ request.email = previous.email
  /\ request.activity_name # previous.activity_name
  /\ list_contains(Roster(request.activity_name), request.email)
  /\ list_contains(Roster(previous.activity_name), request.email)

\* C17: when an unregister has just succeeded on an activity that was at
\* capacity, the next sign-up for that activity of an email that is not on
\* its roster succeeds.
ReopensAfterWithdraw ==
  [][ ( /\ request.op = "unregister"
        /\ IsSuccess(response)
        /\ Len(Roster(request.activity_name)) + 1 >=
             activities[request.activity_name].max_participants
        /\ request'.op = "signup"
        /\ request'.activity_name = request.activity_name
        /\ ~ list_contains(Roster(request.activity_name), request'.email) )
      => /\ IsSuccess(response')
         /\ list_contains(activities'[request'.activity_name].participants,
                          request'.email) ]_vars

\* a participant left a full Tennis Club and another student took the place
ReopensAfterWithdrawWitness ==
  /\ previous.op = "unregister"
  /\ previous.status_code = 200
  /\ previous.activity_name = "Tennis Club"
  /\ request.op = "signup"
  /\ request.activity_name = "Tennis Club"
  /\ request.email # previous.email
  /\ IsSuccess(response)
  /\ Len(Roster("Tennis Club")) = activities["Tennis Club"].max_participants

(***************************************************************************)
(* Properties of handlers running at the same time.                        *)
(***************************************************************************)
\* the handler of thread t run in one piece on the registry acts
RunWhole(acts, t) ==
  IF handlers[t].op = "signup"
  THEN signup_for_activity(acts, handlers[t].activity_name, handlers[t].email)
  ELSE unregister_from_activity(acts, handlers[t].activity_name, handlers[t].email)

\* the registry after the handlers of order[1..k] ran one after the other
RECURSIVE SerialRegistry(_, _)
SerialRegistry(order, k) ==
  IF k = 0 THEN origin
  ELSE RunWhole(SerialRegistry(order, k - 1), order[k]).activities

Finished == { t \in Threads : handlers[t].pc = "done" }

Quiescent == \A t \in Threads : handlers[t].pc \in { "idle", "done" }

Orders(S) ==
  { o \in [ 1..Cardinality(S) -> S ] :
      \A i, j \in 1..Cardinality(S) : i # j => o[i] # o[j] }

\* C12: when no handler is in progress, the answers given and the registry
\* are those of the finished requests run one after the other in some order.
Serializable ==
  Quiescent =>
    \E o \in Orders(Finished) :
      /\ SerialRegistry(o, Cardinality(Finished)) = activities
      /\ \A k \in 1..Cardinality(Finished) :
           LET r == RunWhole(SerialRegistry(o, k - 1), o[k]).response
           IN  /\ handlers[o[k]].status_code = r.status_code
               /\ handlers[o[k]].detail = r.detail

\* C13: while sign-up handlers for one activity and distinct emails run at
\* the same time, the roster of that activity never exceeds max_participants.
ConcurrentCapacity ==
  \A t, u \in Threads :
    ( /\ handlers[t].op = "signup"
      /\ handlers[u].op = "signup"
      /\ handlers[t].activity_name = handlers[u].activity_name
      /\ handlers[t].activity_name \in DOMAIN activities
      /\ handlers[t].email # handlers[u].email )
    => Len(activities[handlers[t].activity_name].participants) <=
         activities[handlers[t].activity_name].max_participants

\* C14: while sign-up handlers for one activity and the same email run at
\* the same time, the email never occurs twice on the roster.
ConcurrentUniqueness ==
  \A t, u \in Threads :
    ( /\ t # u
      /\ handlers[t].op = "signup"
      /\ handlers[u].op = "signup"
      /\ handlers[t].activity_name = handlers[u].activity_name
      /\ handlers[t].activity_name \in DOMAIN activities
      /\ handlers[t].email = handlers[u].email )
    => Occurrences(activities[handlers[t].activity_name].participants,
                   handlers[t].email) <= 1

\* C15: every finished sign-up ended in success, NotFound, AlreadyEnrolled or
\* CapacityExceeded and every finished unregister in success, NotFound or
\* ParticipantNotFound.
OutcomesClosed ==
  \A t \in Finished :
    LET h == handlers[t]
    IN  IF h.op = "signup"
        THEN \/ IsSuccess(h)
             \/ IsNotFound(h)
             \/ IsAlreadyEnrolled(h)
             \/ IsCapacityExceeded(h)
        ELSE \/ IsSuccess(h)
             \/ IsNotFound(h)
             \/ IsParticipantNotFound(h)

====
